---------------------------- MODULE Spec2Model ----------------------------
(***************************************************************************)
(* A model of src/regex.py: the node classes of the state graph, the       *)
(* compiler RegexFSM.__init__ and the matcher RegexFSM.check_string.       *)
(*                                                                         *)
(* Objects live in a heap: a sequence of node records addressed by their   *)
(* index.  Node 1 is the StartState instance bound to the class attribute  *)
(* RegexFSM.curr_state; its next_states list is the class-level list of    *)
(* StartState.  Node 2 stands for every TerminationState object: each      *)
(* TerminationState() the code creates has the same fields (is_end False,  *)
(* next_states [self]), none is ever mutated and no code compares object   *)
(* identity, so one representative is kept.                                *)
(*                                                                         *)
(* Characters are one-character strings, patterns and inputs are           *)
(* sequences of characters.  A missing attribute is modelled by a has_     *)
(* flag (a StartState has no is_end until something assigns it).  The      *)
(* result of a call is "True", "False", or the name of the exception that  *)
(* ended it.                                                               *)
(***************************************************************************)
EXTENDS Naturals, Sequences, FiniteSets

VARIABLES heap,      \* the node objects, by index
          fsm,       \* the RegexFSM objects, by index
          calls,     \* the frame of each check_string call in progress
          log,       \* the finished check_string calls, in order of return
          compiled   \* the finished RegexFSM(...) calls, in order

vars == <<heap, fsm, calls, log, compiled>>

-----------------------------------------------------------------------------
(* Bounds of the model *)

MaxPatLen == 4
MaxInputLen == 3
MaxSeqPatLen == 3
MaxSeqInputLen == 2
MaxCalls == 3
MaxConcPatLen == 2
MaxRepeat == 2
MaxMid == 2
MaxDemoCalls == 2
MaxCompiles == 2
MaxMultiPatLen == 2

(* Alphabets.  NonAscii stands for one character outside ASCII ('é'). *)
NonAscii == "E9"
Letters == {"a", "b"}
PatChars == Letters \cup {".", "*", "+", "#", NonAscii}
DemoChars == {"a", "4", "h", "i", "u", "m", "e", "o", "w"}
AsciiChars == Letters \cup DemoChars \cup {".", "*", "+", "#"}

isascii(c) == c \in AsciiChars

Min(x, y) == IF x <= y THEN x ELSE y

RECURSIVE SeqsUpTo(_, _)
SeqsUpTo(S, n) ==
    IF n = 0 THEN {<<>>}
    ELSE LET shorter == SeqsUpTo(S, n - 1)
         IN  shorter \cup {Append(w, c) : w \in shorter, c \in S}

-----------------------------------------------------------------------------
(* The node classes *)

Blank == [kind |-> "", next_states |-> <<>>, has_is_end |-> FALSE,
          is_end |-> FALSE, curr_sym |-> "", checking_state |-> 0,
          prev_state |-> 0, loop_state |-> 0, minimum_check |-> FALSE]

StartState == [Blank EXCEPT !.kind = "StartState"]

(* A TerminationState built with is_end set. *)
TerminationStateAccepting(self) ==
    [Blank EXCEPT !.kind = "TerminationState", !.has_is_end = TRUE,
                  !.is_end = TRUE, !.next_states = <<self>>]

TerminationState(self) ==
    [Blank EXCEPT !.kind = "TerminationState", !.has_is_end = TRUE,
                  !.next_states = <<self>>]

DotState == [Blank EXCEPT !.kind = "DotState", !.has_is_end = TRUE]

AsciiState(symbol) ==
    [Blank EXCEPT !.kind = "AsciiState", !.has_is_end = TRUE,
                  !.curr_sym = symbol]

StarState(checking_state, prev_state) ==
    [Blank EXCEPT !.kind = "StarState", !.has_is_end = TRUE,
                  !.checking_state = checking_state,
                  !.prev_state = prev_state]

PlusState(checking_state, loop_state) ==
    [Blank EXCEPT !.kind = "PlusState", !.has_is_end = TRUE,
                  !.checking_state = checking_state,
                  !.loop_state = loop_state]

StartId == 1
TermId == 2

InitHeap == <<StartState, TerminationState(TermId)>>

isinstance(h, n, cls) == h[n].kind = cls


-----------------------------------------------------------------------------
(* check_self.  An operation on nodes returns [h, r]: the heap it leaves   *)
(* and its return value.                                                   *)

(* The return value of State.check_self, the abstract method StartState    *)
(* delegates to: its body is pass, so it returns None, which is falsy.     *)
AbstractCheckSelf == FALSE

(* PlusState.check_self returns cur_check.check_self and                   *)
(* self.minimum_check: cur_check.check_self is a bound method, never       *)
(* called here and always truthy, so the value is self.minimum_check.      *)
BoundMethodTruthy == TRUE

RECURSIVE check_self(_, _, _)
check_self(h, n, char) ==
    CASE h[n].kind = "StartState" -> [h |-> h, r |-> AbstractCheckSelf]
      [] h[n].kind = "TerminationState" -> [h |-> h, r |-> TRUE]
      [] h[n].kind = "DotState" -> [h |-> h, r |-> TRUE]
      [] h[n].kind = "AsciiState" -> [h |-> h, r |-> (char = h[n].curr_sym)]
      [] h[n].kind = "StarState" -> check_self(h, h[n].checking_state, char)
      [] h[n].kind = "PlusState" ->
           LET inner == check_self(h, h[n].checking_state, char)
               h1 == IF inner.r
                     THEN [inner.h EXCEPT ![n].minimum_check = TRUE]
                     ELSE inner.h
           IN  [h |-> h1, r |-> (BoundMethodTruthy /\ h1[n].minimum_check)]

-----------------------------------------------------------------------------
(* check_next *)

(* The truth value of the object a check_next call returns, as tested by   *)
(* "if state.check_next(next_char)": every return value is a State         *)
(* instance and no State class defines __bool__ or __len__, so it is       *)
(* truthy, a TerminationState included.                                    *)
Truthy(h, n) == TRUE

RECURSIVE check_next(_, _, _)
RECURSIVE StartLoop(_, _, _, _)
RECURSIVE DotLoop(_, _, _, _)
RECURSIVE AsciiLoop(_, _, _, _)
RECURSIVE StarLoop(_, _, _, _)
RECURSIVE PlusLoop(_, _, _, _)

(* StartState.check_next and TerminationState.check_next: the loop over    *)
(* next_states from position k on.                                         *)
StartLoop(h, succ, k, next_char) ==
    IF k > Len(succ) THEN [h |-> h, r |-> TermId]
    ELSE LET t == check_self(h, succ[k], next_char)
         IN  IF t.r THEN [h |-> t.h, r |-> succ[k]]
             ELSE StartLoop(t.h, succ, k + 1, next_char)

(* DotState.check_next: the self-test comes first, the StarState           *)
(* delegation second.                                                      *)
DotLoop(h, succ, k, next_char) ==
    IF k > Len(succ) THEN [h |-> h, r |-> TermId]
    ELSE LET t == check_self(h, succ[k], next_char)
         IN  IF t.r THEN [h |-> t.h, r |-> succ[k]]
             ELSE IF isinstance(t.h, succ[k], "StarState")
                  THEN check_next(t.h, succ[k], next_char)
                  ELSE DotLoop(t.h, succ, k + 1, next_char)

(* AsciiState.check_next: the StarState delegation comes first. *)
AsciiLoop(h, succ, k, next_char) ==
    IF k > Len(succ) THEN [h |-> h, r |-> TermId]
    ELSE IF isinstance(h, succ[k], "StarState")
         THEN check_next(h, succ[k], next_char)
         ELSE LET t == check_self(h, succ[k], next_char)
              IN  IF t.r THEN [h |-> t.h, r |-> succ[k]]
                  ELSE AsciiLoop(t.h, succ, k + 1, next_char)

(* StarState.check_next, after the inner atom refused the character. *)
StarLoop(h, succ, k, next_char) ==
    IF k > Len(succ) THEN [h |-> h, r |-> TermId]
    ELSE IF isinstance(h, succ[k], "StarState")
         THEN StarLoop(h, succ, k + 1, next_char)
         ELSE LET t == check_next(h, succ[k], next_char)
              IN  IF Truthy(t.h, t.r) THEN [h |-> t.h, r |-> succ[k]]
                  ELSE StarLoop(t.h, succ, k + 1, next_char)

(* PlusState.check_next, once minimum_check is set and the inner atom      *)
(* refused the character.                                                  *)
PlusLoop(h, succ, k, next_char) ==
    IF k > Len(succ) THEN [h |-> h, r |-> TermId]
    ELSE IF isinstance(h, succ[k], "StarState")
         THEN check_next(h, succ[k], next_char)
         ELSE LET t == check_next(h, succ[k], next_char)
              IN  IF Truthy(t.h, t.r) THEN [h |-> t.h, r |-> succ[k]]
                  ELSE PlusLoop(t.h, succ, k + 1, next_char)

check_next(h, n, next_char) ==
    CASE h[n].kind \in {"StartState", "TerminationState"} ->
           StartLoop(h, h[n].next_states, 1, next_char)
      [] h[n].kind = "DotState" ->
           DotLoop(h, h[n].next_states, 1, next_char)
      [] h[n].kind = "AsciiState" ->
           AsciiLoop(h, h[n].next_states, 1, next_char)
      [] h[n].kind = "StarState" ->
           LET t == check_self(h, h[n].checking_state, next_char)
           IN  IF t.r THEN [h |-> t.h, r |-> n]
               ELSE StarLoop(t.h, h[n].next_states, 1, next_char)
      [] h[n].kind = "PlusState" ->
           LET t == check_self(h, h[n].checking_state, next_char)
           IN  IF t.r THEN [h |-> t.h, r |-> n]
               ELSE IF t.h[n].minimum_check
                    THEN PlusLoop(t.h, h[n].next_states, 1, next_char)
                    ELSE [h |-> t.h, r |-> TermId]

-----------------------------------------------------------------------------
(* The compiler: RegexFSM.__init__ *)

(* A new object takes the next free index of the heap. *)
New(h, node) == [h |-> Append(h, node), r |-> Len(h) + 1, raised |-> FALSE]

(* RegexFSM.__init_next_state: the new node for one pattern character, or  *)
(* the AttributeError("Character is not supported").  A PlusState builds   *)
(* its loop_state, a StarState over the same atom, in its constructor.     *)
init_next_state(h, next_token, prev_state, tmp_next_state) ==
    CASE next_token = "." -> New(h, DotState)
      [] next_token = "*" -> New(h, StarState(tmp_next_state, prev_state))
      [] next_token = "+" ->
           LET loop == New(h, StarState(tmp_next_state, tmp_next_state))
           IN  New(loop.h, PlusState(tmp_next_state, loop.r))
      [] next_token \notin {".", "*", "+"} /\ isascii(next_token) ->
           New(h, AsciiState(next_token))
      [] OTHER -> [h |-> h, r |-> 0, raised |-> TRUE]

(* prev_state.next_states.append(tmp_next_state), and the same on          *)
(* prev_state.prev_state when prev_state is a StarState.                   *)
Link(h, prev_state, tmp_next_state) ==
    LET h1 == [h EXCEPT ![prev_state].next_states = Append(@, tmp_next_state)]
    IN  IF isinstance(h1, prev_state, "StarState")
        THEN [h1 EXCEPT ![h1[prev_state].prev_state].next_states =
                            Append(@, tmp_next_state)]
        ELSE h1

(* The scan without "if char in '*+': continue": a quantifier is also      *)
(* turned into a node on its own step.                                     *)
RECURSIVE ScanEveryCharacter(_, _, _)
ScanEveryCharacter(st, regex_expr, i) ==
    IF i > Len(regex_expr) \/ st.raised THEN st
    ELSE
      LET atom == init_next_state(st.h, regex_expr[i], st.prev_state,
                                  st.tmp_next_state)
          quantified == i + 1 <= Len(regex_expr)
                        /\ regex_expr[i + 1] \in {"*", "+"}
          node == IF ~atom.raised /\ quantified
                  THEN init_next_state(atom.h, regex_expr[i + 1],
                                       st.prev_state, atom.r)
                  ELSE atom
      IN  IF node.raised THEN [st EXCEPT !.h = node.h, !.raised = TRUE]
          ELSE ScanEveryCharacter(
                    [h |-> Link(node.h, st.prev_state, node.r),
                     prev_state |-> node.r,
                     tmp_next_state |-> node.r,
                     states |-> Append(st.states, node.r),
                     raised |-> FALSE],
                    regex_expr, i + 1)

(* The scan of the pattern from position i on (1-based).  st holds the     *)
(* heap and the locals prev_state, tmp_next_state and states; raised is    *)
(* set when __init_next_state raised, which ends the constructor with      *)
(* everything done so far left in the heap.                                *)
RECURSIVE Scan(_, _, _)
Scan(st, regex_expr, i) ==
    IF i > Len(regex_expr) \/ st.raised THEN st
    ELSE IF regex_expr[i] \in {"*", "+"} THEN Scan(st, regex_expr, i + 1)
    ELSE
      LET atom == init_next_state(st.h, regex_expr[i], st.prev_state,
                                  st.tmp_next_state)
          quantified == i + 1 <= Len(regex_expr)
                        /\ regex_expr[i + 1] \in {"*", "+"}
          node == IF ~atom.raised /\ quantified
                  THEN init_next_state(atom.h, regex_expr[i + 1],
                                       st.prev_state, atom.r)
                  ELSE atom
      IN  IF node.raised THEN [st EXCEPT !.h = node.h, !.raised = TRUE]
          ELSE Scan([h |-> Link(node.h, st.prev_state, node.r),
                     prev_state |-> node.r,
                     tmp_next_state |-> node.r,
                     states |-> Append(st.states, node.r),
                     raised |-> FALSE],
                    regex_expr, i + 1)

(* The backward walk over states that sets is_end: every StarState passed  *)
(* and the first node that is not one.  It returns the heap and            *)
(* end_exists.                                                             *)
RECURSIVE MarkEnd(_, _, _)
MarkEnd(h, states, k) ==
    IF k = 0 THEN [h |-> h, end_exists |-> FALSE]
    ELSE LET h1 == [h EXCEPT ![states[k]].is_end = TRUE,
                             ![states[k]].has_is_end = TRUE]
         IN  IF isinstance(h, states[k], "StarState")
             THEN MarkEnd(h1, states, k - 1)
             ELSE [h |-> h1, end_exists |-> TRUE]

(* RegexFSM.__init__ as a whole: the heap it leaves, the chain it built    *)
(* and whether it raised.                                                  *)
RegexFSM(h, regex_expr) ==
    LET scanned == Scan([h |-> h, prev_state |-> StartId,
                         tmp_next_state |-> StartId,
                         states |-> <<StartId>>, raised |-> FALSE],
                        regex_expr, 1)
        marked == MarkEnd(scanned.h, scanned.states, Len(scanned.states))
        last == scanned.states[Len(scanned.states)]
    IN  IF scanned.raised
        THEN [h |-> scanned.h, states |-> scanned.states, raised |-> TRUE]
        ELSE [h |-> IF marked.end_exists THEN marked.h
                    ELSE [marked.h EXCEPT ![last].is_end = TRUE,
                                          ![last].has_is_end = TRUE],
              states |-> scanned.states, raised |-> FALSE]

-----------------------------------------------------------------------------
(* The matcher: RegexFSM.check_string *)

(* Python's s[lo:hi] for 0 <= lo <= hi: the slice is cut at the end of s. *)
Slice(s, lo, hi) == SubSeq(s, lo + 1, Min(hi, Len(s)))

(* One pass of "for state in cur_next.next_states" from position k on: the *)
(* list is the one of the node the pass started from, while the break      *)
(* tests the node cur_next names by then.                                  *)
RECURSIVE ForPass(_, _, _, _, _)
ForPass(h, succ, k, cur_next, exit_phrase) ==
    IF k > Len(succ)
    THEN [cur_next |-> cur_next, exit_phrase |-> exit_phrase]
    ELSE LET hit == isinstance(h, succ[k], "AsciiState")
             cur == IF hit THEN succ[k] ELSE cur_next
             phrase == IF hit THEN Append(exit_phrase, h[succ[k]].curr_sym)
                       ELSE exit_phrase
         IN  IF h[cur].next_states = <<>>
             THEN [cur_next |-> cur, exit_phrase |-> phrase]
             ELSE ForPass(h, succ, k + 1, cur, phrase)

(* The "while True" loop that collects exit_phrase.  It ends when cur_next *)
(* has no successors.  A pass that ends with successors left and with      *)
(* cur_next and exit_phrase as they were repeats for ever, the loop body   *)
(* being a function of these two alone: hung reports that.                 *)
RECURSIVE WhileTrue(_, _, _)
WhileTrue(h, cur_next, exit_phrase) ==
    LET pass == ForPass(h, h[cur_next].next_states, 1, cur_next, exit_phrase)
    IN  IF h[pass.cur_next].next_states = <<>>
        THEN [exit_phrase |-> pass.exit_phrase, hung |-> FALSE]
        ELSE IF pass.cur_next = cur_next /\ pass.exit_phrase = exit_phrase
             THEN [exit_phrase |-> exit_phrase, hung |-> TRUE]
             ELSE WhileTrue(h, pass.cur_next, pass.exit_phrase)

(* Whether an iteration of check_string takes the string-slicing branch. *)
FastForward(h, curr_state) ==
    /\ h[curr_state].kind \in {"StarState", "PlusState"}
    /\ isinstance(h, h[curr_state].checking_state, "DotState")

(* One iteration of the loop of check_string, for the character at 0-based *)
(* index i: the heap and the cursor it leaves, the exception that ended it *)
(* ("" for none) and whether it never ends.                                *)
Iteration(h, curr_state, reg_string, i) ==
    LET keep == [h |-> h, curr_state |-> curr_state, exc |-> "",
                 hung |-> FALSE]
    IN  IF FastForward(h, curr_state)
        THEN IF h[curr_state].next_states = <<>>
             THEN [keep EXCEPT !.exc = "IndexError"]
             ELSE LET cur_next == h[curr_state].next_states[1]
                  IN  IF ~isinstance(h, cur_next, "AsciiState")
                      THEN [keep EXCEPT !.exc = "AttributeError"]
                      ELSE LET w == WhileTrue(h, cur_next,
                                              <<h[cur_next].curr_sym>>)
                           IN  IF w.hung THEN [keep EXCEPT !.hung = TRUE]
                               ELSE IF Slice(reg_string, i,
                                             i + 1 + Len(w.exit_phrase))
                                       = w.exit_phrase
                                    THEN [keep EXCEPT !.curr_state = cur_next]
                                    ELSE keep
        ELSE LET t == check_next(h, curr_state, reg_string[i + 1])
             IN  [keep EXCEPT !.h = t.h, !.curr_state = t.r]

Str(b) == IF b THEN "True" ELSE "False"

(* check_string as a whole, run without interruption from position i on:   *)
(* the heap and the cursor it leaves, and its result ("hung" when an       *)
(* iteration never ends).                                                  *)
RECURSIVE Loop(_, _, _, _, _)
Loop(h, curr_state, start_state_ref, reg_string, i) ==
    IF i = Len(reg_string)
    THEN IF h[curr_state].has_is_end
         THEN [h |-> h, curr_state |-> start_state_ref,
               result |-> Str(h[curr_state].is_end)]
         ELSE [h |-> h, curr_state |-> curr_state,
               result |-> "AttributeError"]
    ELSE LET it == Iteration(h, curr_state, reg_string, i)
         IN  IF it.hung
             THEN [h |-> it.h, curr_state |-> it.curr_state,
                   result |-> "hung"]
             ELSE IF it.exc # ""
                  THEN [h |-> it.h, curr_state |-> it.curr_state,
                        result |-> it.exc]
                  ELSE Loop(it.h, it.curr_state, start_state_ref,
                            reg_string, i + 1)

check_string(h, curr_state, reg_string) ==
    Loop(h, curr_state, curr_state, reg_string, 0)

Idle == [pc |-> "idle", self |-> 0, reg_string |-> <<>>, i |-> 0,
         start_state_ref |-> 0]

Finished(f, result) ==
    [self |-> f.self, reg_string |-> f.reg_string, result |-> result]

-----------------------------------------------------------------------------
(* The actions *)

Init ==
    /\ heap = InitHeap
    /\ fsm = <<>>
    /\ calls = [t \in {1, 2} |-> Idle]
    /\ log = <<>>
    /\ compiled = <<>>

NoCall == \A t \in DOMAIN calls : calls[t].pc = "idle"

(* RegexFSM(regex_expr): the whole constructor.  The new object reads      *)
(* curr_state from the class until check_string assigns it.                *)
Construct(regex_expr, maxCompiles) ==
    /\ Len(compiled) < maxCompiles
    /\ NoCall
    /\ LET c == RegexFSM(heap, regex_expr)
       IN  /\ heap' = c.h
           /\ fsm' = IF c.raised THEN fsm
                     ELSE Append(fsm, [regex_expr |-> regex_expr,
                                       states |-> c.states,
                                       curr_state |-> StartId])
           /\ compiled' = Append(compiled,
                                 [regex_expr |-> regex_expr,
                                  raised |-> c.raised,
                                  self |-> IF c.raised THEN 0
                                           ELSE Len(fsm) + 1])
    /\ UNCHANGED <<calls, log>>

(* check_string is entered: start_state_ref = self.curr_state. *)
Begin(t, self, reg_string, maxCalls) ==
    /\ calls[t].pc = "idle"
    /\ self \in DOMAIN fsm
    /\ Len(log) + Cardinality({u \in DOMAIN calls : calls[u].pc # "idle"})
         < maxCalls
    /\ calls' = [calls EXCEPT ![t] =
                    [pc |-> "loop", self |-> self, reg_string |-> reg_string,
                     i |-> 0, start_state_ref |-> fsm[self].curr_state]]
    /\ UNCHANGED <<heap, fsm, log, compiled>>

(* One iteration of the for loop over the input. *)
Step(t) ==
    /\ calls[t].pc = "loop"
    /\ calls[t].i < Len(calls[t].reg_string)
    /\ LET f == calls[t]
           it == Iteration(heap, fsm[f.self].curr_state, f.reg_string, f.i)
       IN  /\ heap' = it.h
           /\ fsm' = [fsm EXCEPT ![f.self].curr_state = it.curr_state]
           /\ calls' = [calls EXCEPT ![t] =
                          IF it.hung THEN [f EXCEPT !.pc = "hung"]
                          ELSE IF it.exc # "" THEN Idle
                          ELSE [f EXCEPT !.i = f.i + 1]]
           /\ log' = IF it.exc # "" THEN Append(log, Finished(f, it.exc))
                     ELSE log
    /\ UNCHANGED compiled

(* The end of check_string: result = self.curr_state.is_end, then the      *)
(* cursor is put back and the result returned.  Reading is_end of a node   *)
(* that has none raises AttributeError before the cursor is put back.      *)
Return(t) ==
    /\ calls[t].pc = "loop"
    /\ calls[t].i = Len(calls[t].reg_string)
    /\ LET f == calls[t]
           cs == fsm[f.self].curr_state
       IN  IF heap[cs].has_is_end
           THEN /\ log' = Append(log, Finished(f, Str(heap[cs].is_end)))
                /\ fsm' = [fsm EXCEPT ![f.self].curr_state = f.start_state_ref]
           ELSE /\ log' = Append(log, Finished(f, "AttributeError"))
                /\ fsm' = fsm
    /\ calls' = [calls EXCEPT ![t] = Idle]
    /\ UNCHANGED <<heap, compiled>>

-----------------------------------------------------------------------------
(* The program run on one thread: one pattern is compiled and              *)
(* check_string is called on it once.                                      *)

Patterns == SeqsUpTo(PatChars, MaxPatLen)
Inputs == SeqsUpTo(Letters, MaxInputLen)

Next ==
    \/ \E p \in Patterns : Construct(p, 1)
    \/ \E s \in Inputs : Begin(1, 1, s, 1)
    \/ Step(1)
    \/ Return(1)

Spec == Init /\ [][Next]_vars

(* One pattern is compiled and check_string is called on it several       *)
(* times, one call after the other.                                        *)

SeqPatterns == SeqsUpTo(Letters \cup {".", "*", "+"}, MaxSeqPatLen)
SeqInputs == SeqsUpTo(Letters, MaxSeqInputLen)

NextSeq ==
    \/ \E p \in SeqPatterns : Construct(p, 1)
    \/ \E s \in SeqInputs : Begin(1, 1, s, MaxCalls)
    \/ Step(1)
    \/ Return(1)

SpecSeq == Init /\ [][NextSeq]_vars


(* One pattern is compiled and two check_string calls run on the object,   *)
(* interleaved one input character at a time: both read and assign the     *)
(* object's curr_state.                                                    *)

ConcPatterns == SeqsUpTo(Letters \cup {".", "*", "+"}, MaxConcPatLen)

NextConc ==
    \/ \E p \in ConcPatterns : Construct(p, 1)
    \/ \E t \in {1, 2} : \E s \in SeqInputs : Begin(t, 1, s, 2)
    \/ \E t \in {1, 2} : Step(t)
    \/ \E t \in {1, 2} : Return(t)

SpecConc == Init /\ [][NextConc]_vars

(* One pattern over letters, '.', '*' and '+' is compiled, quantifiers     *)
(* without an atom before them included, and check_string is called on it  *)
(* once.                                                                   *)

NextSmall ==
    \/ \E p \in SeqPatterns : Construct(p, 1)
    \/ \E s \in SeqInputs : Begin(1, 1, s, 1)
    \/ Step(1)
    \/ Return(1)

SpecSmall == Init /\ [][NextSmall]_vars

(* Several patterns are compiled in one process, one after the other, and  *)
(* check_string is called once, on any of the objects.                     *)

MultiPatterns == SeqsUpTo(PatChars, MaxMultiPatLen)

NextMulti ==
    \/ \E p \in MultiPatterns : Construct(p, MaxCompiles)
    \/ \E f \in 1..MaxCompiles : \E s \in SeqInputs : Begin(1, f, s, 1)
    \/ Step(1)
    \/ Return(1)

SpecMulti == Init /\ [][NextMulti]_vars

(* The demonstration of __main__: the pattern a*4.+hi is compiled and      *)
(* check_string is called on the one object, with the three inputs of      *)
(* __main__ in their order or with inputs of the families below.           *)

DemoPattern == <<"a", "*", "4", ".", "+", "h", "i">>

MainInputs == << <<"4", "u", "h", "i">>,
                 <<"a", "a", "a", "a", "a", "a", "4", "u", "h", "i">>,
                 <<"m", "e", "o", "w">> >>

RECURSIVE Repeat(_, _)
Repeat(c, n) == IF n = 0 THEN <<>> ELSE <<c>> \o Repeat(c, n - 1)

(* Zero or more 'a', then '4', then one or more characters, then "hi". *)
Accepted ==
    {Repeat("a", n) \o <<"4">> \o mid \o <<"h", "i">> :
        n \in 0..MaxRepeat,
        mid \in SeqsUpTo({"u", "h", "i"}, MaxMid) \ {<<>>}}

(* Inputs that do not begin with 'a' or '4': the empty input and inputs    *)
(* whose first character is another one.                                   *)
Others ==
    {<<>>} \cup {<<c>> \o w : c \in {"h", "u", "m"},
                              w \in SeqsUpTo({"a", "4", "h"}, MaxMid - 1)}

(* The next call of __main__, once the calls before it have returned. *)
Main ==
    \E k \in DOMAIN MainInputs :
        /\ Len(log) = k - 1
        /\ \A j \in DOMAIN log : log[j].reg_string = MainInputs[j]
        /\ Begin(1, 1, MainInputs[k], Len(MainInputs))

NextDemo ==
    \/ Construct(DemoPattern, 1)
    \/ Main
    \/ \E s \in Accepted \cup Others : Begin(1, 1, s, MaxDemoCalls)
    \/ Step(1)
    \/ Return(1)

SpecDemo == Init /\ [][NextDemo]_vars

-----------------------------------------------------------------------------
(* The reference semantics of a pattern, for the claims about the language *)

Quantifiers == {"*", "+"}
Atoms == Letters \cup {"."}

(* Each quantifier directly follows an atom, and every other character is  *)
(* a letter or the wildcard.                                               *)
WellFormed(p) ==
    \A k \in DOMAIN p :
        /\ p[k] \in Atoms \cup Quantifiers
        /\ p[k] \in Quantifiers => (k > 1 /\ p[k - 1] \in Atoms)

AtomAccepts(x, c) == x = "." \/ x = c

(* Whether s from position i on is in the language of p from position k    *)
(* on (both 1-based, p well-formed).                                       *)
RECURSIVE InLang(_, _, _, _)
InLang(p, k, s, i) ==
    IF k > Len(p) THEN i > Len(s)
    ELSE LET q == IF k + 1 <= Len(p) /\ p[k + 1] \in Quantifiers
                  THEN p[k + 1] ELSE "1"
             rest == IF q = "1" THEN k + 1 ELSE k + 2
             head == i <= Len(s) /\ AtomAccepts(p[k], s[i])
         IN  CASE q = "1" -> head /\ InLang(p, rest, s, i + 1)
               [] q = "*" -> \/ InLang(p, rest, s, i)
                             \/ head /\ InLang(p, k, s, i + 1)
               [] q = "+" -> head /\ (\/ InLang(p, rest, s, i + 1)
                                      \/ InLang(p, k, s, i + 1))

Matches(p, s) == InLang(p, 1, s, 1)

(* Every atom of p carries a '*'. *)
AllStarred(p) ==
    \A k \in DOMAIN p :
        p[k] \in Atoms => (k + 1 <= Len(p) /\ p[k + 1] = "*")

PatternOf(entry) == fsm[entry.self].regex_expr

-----------------------------------------------------------------------------
(* The claims *)

(* C1: on one compiled pattern, under sequential calls, check_string(s)    *)
(* depends only on s: two calls that return, made with the same input,     *)
(* return the same result, whatever was matched in between.                *)
C1_SameInputSameResult ==
    \A j, k \in DOMAIN log :
        (/\ log[j].self = log[k].self
         /\ log[j].reg_string = log[k].reg_string
         /\ log[j].result \in {"True", "False"}
         /\ log[k].result \in {"True", "False"})
            => log[j].result = log[k].result

(* C2: when two check_string calls on one object are interleaved one       *)
(* character at a time, each returns what it returns when run alone on the *)
(* compiled pattern, and once both are over curr_state is the Start node.  *)
C2_InterleavedCallsIndependent ==
    (Len(log) = 2 /\ NoCall) =>
        /\ \A k \in DOMAIN log :
              log[k].result =
                check_string(RegexFSM(InitHeap, PatternOf(log[k])).h,
                             StartId, log[k].reg_string).result
        /\ fsm[1].curr_state = StartId

(* C3: check_string returns a boolean and never raises, for every compiled *)
(* pattern and every input.                                                *)
C3_NeverRaises ==
    \A k \in DOMAIN log : log[k].result \in {"True", "False"}

(* C4: check_string terminates: every iteration over an input character    *)
(* finishes, the loop that collects the exit phrase included.              *)
C4_EveryStepFinishes ==
    \A t \in DOMAIN calls : calls[t].pc # "hung"

(* C5: for a well-formed pattern, the first check_string call on the       *)
(* freshly compiled pattern returns true exactly when the whole input is   *)
(* in the language of the pattern.                                         *)
C5_MatchesLanguage ==
    \A k \in DOMAIN log :
        (k = 1 /\ WellFormed(PatternOf(log[k]))) =>
            (log[k].result = "True"
                <=> Matches(PatternOf(log[k]), log[k].reg_string))

(* C6: for every atom X, check_string on the pattern X* returns true for   *)
(* every input made only of characters X accepts, of every length.         *)
C6_StarAcceptsRepetitions ==
    \A k \in DOMAIN log :
        \A x \in Atoms :
            (/\ PatternOf(log[k]) = <<x, "*">>
             /\ \A m \in DOMAIN log[k].reg_string :
                    AtomAccepts(x, log[k].reg_string[m]))
                => log[k].result = "True"

(* C7: for every atom X, every check_string call on the pattern X+ returns *)
(* true only when the input has at least one character and X accepts every *)
(* character of it.                                                        *)
C7_PlusAcceptsOnlyRepetitions ==
    \A k \in DOMAIN log :
        \A x \in Atoms :
            (PatternOf(log[k]) = <<x, "+">> /\ log[k].result = "True")
                => /\ log[k].reg_string # <<>>
                   /\ \A m \in DOMAIN log[k].reg_string :
                          AtomAccepts(x, log[k].reg_string[m])

(* C8: check_string('') returns true when every atom of the pattern is     *)
(* '*'-quantified and false otherwise.                                     *)
C8_EmptyInput ==
    \A k \in DOMAIN log :
        (log[k].reg_string = <<>> /\ WellFormed(PatternOf(log[k])))
            => log[k].result = Str(AllStarred(PatternOf(log[k])))

(* The supported pattern characters: letters, digits, '.', '*' and '+'. *)
Supported == Letters \cup DemoChars \cup {".", "*", "+"}

(* C10: compiling a pattern that holds a character other than a letter, a  *)
(* digit, '.', '*' or '+' raises and yields no compiled pattern.           *)
C10_UnsupportedSymbolRaises ==
    \A k \in DOMAIN compiled :
        (\E m \in DOMAIN compiled[k].regex_expr :
                compiled[k].regex_expr[m] \notin Supported)
            => compiled[k].raised /\ compiled[k].self = 0

(* The results the comments of __main__ give for its three calls. *)
MainResults == <<"True", "True", "False">>

BeginsWithAOr4(s) == s # <<>> /\ s[1] \in {"a", "4"}

(* The three calls of __main__, made in their order, return true, true,    *)
(* false.                                                                  *)
MainCallsAsCommented ==
    \A k \in DOMAIN log :
        (\A j \in 1..k : j <= Len(MainInputs)
                         /\ log[j].reg_string = MainInputs[j])
            => log[k].result = MainResults[k]

(* An input of zero or more 'a', then '4', then one or more characters,    *)
(* then "hi" is accepted.                                                  *)
FamilyAccepted ==
    \A k \in DOMAIN log :
        log[k].reg_string \in Accepted => log[k].result = "True"

(* An input that does not begin with 'a' or '4' is rejected. *)
OthersRejected ==
    \A k \in DOMAIN log :
        ~BeginsWithAOr4(log[k].reg_string) => log[k].result = "False"

(* An input whose first character is neither 'a' nor '4' is rejected. *)
OtherFirstCharacterRejected ==
    \A k \in DOMAIN log :
        (log[k].reg_string # <<>> /\ ~BeginsWithAOr4(log[k].reg_string))
            => log[k].result = "False"

(* C9: on one object compiled from a*4.+hi, the three calls of __main__    *)
(* return true, true, false in their order; every input of zero or more    *)
(* 'a', then '4', then one or more characters, then "hi" is accepted; and  *)
(* every input that does not begin with 'a' or '4' is rejected (the call   *)
(* returns false).                                                         *)
C9_Demo == MainCallsAsCommented /\ FamilyAccepted /\ OthersRejected

(* The result of check_string(s) on a pattern compiled alone in a fresh    *)
(* process.                                                                *)
Alone(regex_expr, s) ==
    check_string(RegexFSM(InitHeap, regex_expr).h, StartId, s).result

(* C11: the result of check_string(s) on a compiled pattern depends only   *)
(* on the pattern and s: compiling other patterns in the same process,     *)
(* before or after it, a compile that raised included, does not change it. *)
C11_OtherCompilesDoNotMatter ==
    \A k \in DOMAIN log :
        k = 1 => log[k].result = Alone(PatternOf(log[k]), log[k].reg_string)

(* C12: a check_string call leaves every field of every node unchanged     *)
(* (next_states, is_end, checking_state, minimum_check): a step that is    *)
(* not a compile changes only the cursor and the call's own frame.         *)
C12_CallsLeaveNodesUnchanged ==
    [][compiled' = compiled => heap' = heap]_vars

(* C13: every check_string call begins its traversal at the Start node,    *)
(* after any earlier calls on the object, calls that raised included.      *)
C13_CallsBeginAtStart ==
    \A t \in DOMAIN calls :
        calls[t].pc # "idle" => calls[t].start_state_ref = StartId

(* The kind of the node the cursor of the call of thread t is on. *)
CursorKind(t) == heap[fsm[calls[t].self].curr_state].kind

TerminationNeverEnd ==
    \A n \in DOMAIN heap :
        heap[n].kind = "TerminationState"
            => heap[n].has_is_end /\ ~heap[n].is_end

(* A step taken while the cursor of a call is a TerminationState either    *)
(* leaves the call running with the cursor on a TerminationState, or is    *)
(* the return of that call with the result false.                          *)
TerminationAbsorbs ==
    \A t \in DOMAIN calls :
        (calls[t].pc = "loop" /\ CursorKind(t) = "TerminationState")
            => \/ /\ calls'[t].pc = "loop"
                  /\ heap'[fsm'[calls'[t].self].curr_state].kind
                       = "TerminationState"
               \/ /\ calls'[t].pc = "idle"
                  /\ log' = Append(log, Finished(calls[t], "False"))

(* C14: a TerminationState is never marked is_end, and it is absorbing:    *)
(* once the cursor of a call is a TerminationState it stays one for every  *)
(* remaining input character, and the call returns false.                  *)
C14_TerminationAbsorbing ==
    []TerminationNeverEnd /\ [][TerminationAbsorbs]_vars

(* A call that fell to a TerminationState on its first character and has   *)
(* consumed a second one since.                                            *)
C14_Witness ==
    \E t \in DOMAIN calls :
        /\ calls[t].pc = "loop"
        /\ calls[t].i >= 2
        /\ CursorKind(t) = "TerminationState"
        /\ check_next(heap, StartId, calls[t].reg_string[1]).r = TermId

(* The inner atom of the quantifier node n refuses the character c. *)
InnerRefuses(h, n, c) == ~check_self(h, h[n].checking_state, c).r

(* C15: when the inner atom of a StarState does not accept c, check_next   *)
(* returns a non-star successor only if that successor's own check_next(c) *)
(* resolves to a node that is not a TerminationState, and it returns a     *)
(* TerminationState when every non-star successor resolves to one.         *)
C15_StarProbesSuccessors ==
    \A n \in DOMAIN heap : \A c \in Letters :
        (isinstance(heap, n, "StarState") /\ InnerRefuses(heap, n, c))
            => LET r == check_next(heap, n, c).r
               IN  /\ ~isinstance(heap, r, "TerminationState")
                        => ~isinstance(heap, check_next(heap, r, c).r,
                                       "TerminationState")
                   /\ (\A k \in DOMAIN heap[n].next_states :
                          LET s == heap[n].next_states[k]
                          IN  ~isinstance(heap, s, "StarState")
                                => isinstance(heap,
                                              check_next(heap, s, c).r,
                                              "TerminationState"))
                        => isinstance(heap, r, "TerminationState")

(* C16: once its minimum is satisfied and its inner atom does not accept   *)
(* c, PlusState.check_next(c) resolves as DotState.check_next(c) does over *)
(* the same successor list.                                                *)
C16_PlusProbesAsDot ==
    \A n \in DOMAIN heap : \A c \in Letters :
        (/\ isinstance(heap, n, "PlusState")
         /\ heap[n].minimum_check
         /\ InnerRefuses(heap, n, c))
            => check_next(heap, n, c).r
                 = DotLoop(heap, heap[n].next_states, 1, c).r

(* The node n carries is_end and it is true. *)
IsEnd(h, n) == h[n].has_is_end /\ h[n].is_end

(* C17: after compiling any pattern, the empty one and the ones whose      *)
(* atoms are all starred included, the Start node is not marked accepting. *)
C17_StartNeverAccepting == ~IsEnd(heap, StartId)

(* The chain nodes of states that are accepting. *)
AcceptingOf(h, states) ==
    {states[k] : k \in {j \in DOMAIN states : IsEnd(h, states[j])}}

(* The maximal run of StarState nodes at the end of the chain and the one  *)
(* node that is not a StarState before it.                                 *)
TrailingRun(h, states) ==
    {k \in DOMAIN states :
        \A j \in k..Len(states) : isinstance(h, states[j], "StarState")}

ExpectedAccepting(h, states) ==
    LET run == TrailingRun(h, states)
        adjacent == Len(states) - Cardinality(run)
    IN  {states[k] : k \in run}
          \cup (IF adjacent >= 1 THEN {states[adjacent]} ELSE {})

(* The last constructor call returned and no call has run since. *)
JustCompiled ==
    /\ compiled # <<>>
    /\ ~compiled[Len(compiled)].raised
    /\ log = <<>>
    /\ NoCall

(* C18: after compiling a pattern, the accepting chain nodes are exactly   *)
(* the maximal run of StarState nodes at the end of the chain and the one  *)
(* node that is not a StarState next to it; when the last atom is          *)
(* unquantified, exactly one node is accepting.                            *)
C18_AcceptingNodes ==
    JustCompiled =>
        LET states == fsm[Len(fsm)].states
            last == states[Len(states)]
        IN  /\ AcceptingOf(heap, states) = ExpectedAccepting(heap, states)
            /\ heap[last].kind \in {"DotState", "AsciiState"}
                 => Cardinality(AcceptingOf(heap, states)) = 1

(* The traversal without the slicing branch: check_next is applied to      *)
(* every input character from position i on (0-based), and the result is   *)
(* is_end of the node reached.                                             *)
RECURSIVE PerCharacter(_, _, _, _)
PerCharacter(h, curr_state, reg_string, i) ==
    IF i = Len(reg_string)
    THEN IF h[curr_state].has_is_end THEN Str(h[curr_state].is_end)
         ELSE "AttributeError"
    ELSE LET t == check_next(h, curr_state, reg_string[i + 1])
         IN  PerCharacter(t.h, t.r, reg_string, i + 1)

(* A well-formed pattern in which a quantified wildcard is directly        *)
(* followed by a letter.                                                   *)
WildcardThenLiteral(p) ==
    /\ WellFormed(p)
    /\ \E k \in DOMAIN p :
          /\ k + 2 <= Len(p)
          /\ p[k] = "."
          /\ p[k + 1] \in Quantifiers
          /\ p[k + 2] \in Letters

(* C19: for a pattern in which a quantified wildcard is directly followed  *)
(* by a literal sequence, and any input, check_string with its slicing     *)
(* branch returns what the traversal of the same graph that applies        *)
(* check_next to every character returns.                                  *)
C19_SlicingEqualsPerCharacter ==
    /\ \A k \in DOMAIN log :
          WildcardThenLiteral(PatternOf(log[k]))
            => log[k].result
                 = PerCharacter(RegexFSM(InitHeap, PatternOf(log[k])).h,
                                StartId, log[k].reg_string, 0)
    /\ \A t \in DOMAIN calls :
          calls[t].pc = "hung"
            => ~WildcardThenLiteral(fsm[calls[t].self].regex_expr)

(* The pattern without the quantifiers that follow no atom: a leading one  *)
(* and every one that directly follows another quantifier.                 *)
RECURSIVE Normalize(_, _)
Normalize(p, k) ==
    IF k > Len(p) THEN <<>>
    ELSE IF p[k] \in Quantifiers /\ (k = 1 \/ p[k - 1] \in Quantifiers)
         THEN Normalize(p, k + 1)
         ELSE <<p[k]>> \o Normalize(p, k + 1)

AtomCount(p) == Cardinality({k \in DOMAIN p : p[k] \notin Quantifiers})

(* C20: a '*' or '+' makes no node on its own scan step, it only wraps the *)
(* atom before it: the chain holds one node per atom character after       *)
(* Start, and a pattern compiles to the graph of the same pattern without  *)
(* its leading quantifier and without the quantifiers that follow another  *)
(* quantifier.                                                             *)
C20_QuantifierIsLookaheadOnly ==
    JustCompiled =>
        LET f == fsm[Len(fsm)]
            plain == RegexFSM(InitHeap, Normalize(f.regex_expr, 1))
        IN  /\ Len(f.states) = 1 + AtomCount(f.regex_expr)
            /\ f.states = plain.states
            /\ heap = plain.h

(* A compiled pattern with a leading quantifier or two quantifiers in a    *)
(* row.                                                                    *)
C20_Witness ==
    /\ JustCompiled
    /\ Normalize(fsm[Len(fsm)].regex_expr, 1) # fsm[Len(fsm)].regex_expr

=============================================================================
